---- MODULE Spec2Model ----
(***************************************************************************)
(* The user-account service of tabriz-lsp: registration, login, cookie     *)
(* based JWT issuance / refresh / logout and the dual-mode (cookie, then   *)
(* Authorization header) token resolver.                                    *)
(*                                                                          *)
(* Time is a discrete clock `now`.  A token is the record of the claims a  *)
(* signed JWT carries (token_type, user_id, exp) plus whether its          *)
(* signature verifies.  The credential store is the sequence `users`; a    *)
(* user's id is its position.                                              *)
(*                                                                          *)
(* The product service is the catalog `products` with its list, search,    *)
(* detail, stock, create, update and soft-delete endpoints and the         *)
(* exception handler that shapes its error responses.                      *)
(***************************************************************************)
EXTENDS Integers, Sequences, FiniteSets, TLC

\* ---------------------------------------------------------------- bounds
MaxTime == 2
MaxIssued == 5
MaxProducts == 2

\* ------------------------------------------------------- configuration
\* settings.SIMPLE_JWT['ACCESS_TOKEN_LIFETIME'] / ['REFRESH_TOKEN_LIFETIME'],
\* in clock ticks (access is the short one).
ACCESS_TOKEN_LIFETIME == 1
REFRESH_TOKEN_LIFETIME == 2

\* ------------------------------------------------------ input domains
Emails == {"a@b.com", "c@d.com"}
WeakPasswords == {"123"}
RegisterPasswords == {"testpass123", "123"}
LoginPasswords == {"testpass123", "wrongpassword"}
Absent == "<absent>"
FirstNameInputs == {Absent, " ", " Ann "}
LastNameInputs == {Absent, " "}
Slots == {1, 2}

VARIABLES
    users,   \* the credential store: Seq of user rows, id = index
    now,     \* the clock
    issued,  \* every token the service has minted so far
    reg,     \* registrations in flight, one per worker slot
    products, \* the catalog: Seq of product documents, id = index
    settings, \* the deployment's settings: DEBUG and SIMPLE_JWT['AUTH_COOKIE']
    jar,     \* the cookies a cookie-only client holds, with their expiry
    phase,   \* that client's last successful session operation
    preg     \* product creations in flight, one per worker slot

vars == <<users, now, issued, reg, products, settings, jar, phase, preg>>

\* ------------------------------------------------------------- tokens
NoToken == [kind |-> "none", uid |-> 0, exp |-> 0, sig |-> FALSE]
Malformed == [kind |-> "malformed", uid |-> 0, exp |-> 0, sig |-> FALSE]
\* a cookie that is sent with the empty string as its value
EmptyCookie == [kind |-> "empty", uid |-> 0, exp |-> 0, sig |-> FALSE]

\* RefreshToken.for_user(user): a refresh token for the user, expiring one
\* refresh lifetime from now.
RefreshToken_for_user(uid, t) ==
    [kind |-> "refresh", uid |-> uid, exp |-> t + REFRESH_TOKEN_LIFETIME, sig |-> TRUE]

\* refresh.access_token: an access token for the same user, expiring one
\* access lifetime from now.
access_token_of(refresh, t) ==
    [kind |-> "access", uid |-> refresh.uid, exp |-> t + ACCESS_TOKEN_LIFETIME, sig |-> TRUE]

\* a token whose payload or signature was altered after signing
Tampered(tok) == [tok EXCEPT !.sig = FALSE]

TokenVerifies_mut_any_type(raw, type, t) ==
    /\ raw.sig
    /\ raw.kind \in {"access", "refresh"}
    /\ t < raw.exp

TokenVerifies_mut_inclusive(raw, type, t) ==
    /\ raw.sig
    /\ raw.kind = type
    /\ t <= raw.exp

\* Token(raw).verify(): signature, expiry (exp <= now is expired) and type.
TokenVerifies(raw, type, t) ==
    /\ raw.sig
    /\ raw.kind = type
    /\ t < raw.exp

\* JWTAuthentication.get_validated_token: only access tokens are accepted.
get_validated_token(raw, t) == TokenVerifies(raw, "access", t)

get_user_mut_no_active(validated_token, U) ==
    validated_token.uid \in 1..Len(U)

\* JWTAuthentication.get_user: the user row must exist and be active.
get_user(validated_token, U) ==
    /\ validated_token.uid \in 1..Len(U)
    /\ U[validated_token.uid].is_active

\* ------------------------------------------------- Authorization header
NoHeader == [form |-> "none", token |-> NoToken]
BearerHeader(tok) == [form |-> "bearer", token |-> tok]
\* "Bearer" followed by no or by several values
BadPartsHeader == [form |-> "badparts", token |-> NoToken]
\* another scheme, e.g. "Basic ..."
OtherSchemeHeader == [form |-> "other", token |-> NoToken]

\* JWTAuthentication.get_raw_token: None for another scheme, an
\* AuthenticationFailed for a Bearer header without exactly two parts.
get_raw_token(header) ==
    CASE header.form = "bearer" -> [result |-> "token", token |-> header.token]
      [] header.form = "badparts" -> [result |-> "raise", token |-> NoToken]
      [] OTHER -> [result |-> "none", token |-> NoToken]

\* --------------------------------------------------- Token Resolver
None == [result |-> "none", uid |-> 0, via |-> "none"]
AuthFailed == [result |-> "raise", uid |-> 0, via |-> "none"]
Identity(uid, via) == [result |-> "user", uid |-> uid, via |-> via]

\* settings.SIMPLE_JWT.get('AUTH_COOKIE', 'access_token')
cookie_name ==
    IF settings.AUTH_COOKIE = Absent THEN "access_token" ELSE settings.AUTH_COOKIE

authenticate_mut_cookie_blocks(cookies, header, U, t) ==
    LET access_token == cookies[cookie_name]
    IN  IF access_token # NoToken
        THEN IF get_validated_token(access_token, t) /\ get_user(access_token, U)
             THEN Identity(access_token.uid, "cookie")
             ELSE AuthFailed
        ELSE IF header.form = "none" THEN None
        ELSE LET raw_token == get_raw_token(header)
             IN  IF raw_token.result = "none" THEN None
                 ELSE IF raw_token.result = "raise" THEN AuthFailed
                 ELSE IF get_validated_token(raw_token.token, t) /\ get_user(raw_token.token, U)
                      THEN Identity(raw_token.token.uid, "header")
                      ELSE None

authenticate_mut_header_first(cookies, header, U, t) ==
    LET access_token == cookies[cookie_name]
        raw_token == get_raw_token(header)
    IN  IF /\ raw_token.result = "token"
           /\ get_validated_token(raw_token.token, t) /\ get_user(raw_token.token, U)
        THEN Identity(raw_token.token.uid, "header")
        ELSE IF /\ access_token # NoToken
                /\ get_validated_token(access_token, t) /\ get_user(access_token, U)
             THEN Identity(access_token.uid, "cookie")
             ELSE None

authenticate_mut_header_unchecked(cookies, header, U, t) ==
    LET access_token == cookies[cookie_name]
    IN  IF /\ access_token # NoToken
           /\ get_validated_token(access_token, t) /\ get_user(access_token, U)
        THEN Identity(access_token.uid, "cookie")
        ELSE IF header.form = "none" THEN None
        ELSE LET raw_token == get_raw_token(header)
             IN  IF raw_token.result = "none" THEN None
                 ELSE IF raw_token.result = "raise" THEN AuthFailed
                 ELSE IF raw_token.token.uid \in 1..Len(U)
                      THEN Identity(raw_token.token.uid, "header")
                      ELSE None

\* CookieJWTAuthentication.authenticate
authenticate(cookies, header, U, t) ==
    LET access_token == cookies[cookie_name]
    IN  IF /\ access_token # NoToken
           /\ get_validated_token(access_token, t) /\ get_user(access_token, U)
        THEN Identity(access_token.uid, "cookie")
        ELSE \* the cookie is absent, or its validation raised: try the header
             IF header.form = "none" THEN None
        ELSE LET raw_token == get_raw_token(header)
             IN  IF raw_token.result = "none" THEN None
                 ELSE IF raw_token.result = "raise" THEN AuthFailed
                 ELSE IF get_validated_token(raw_token.token, t) /\ get_user(raw_token.token, U)
                      THEN Identity(raw_token.token.uid, "header")
                      ELSE None

\* --------------------------------------------------- Cookie Manager
DEBUG == settings.DEBUG
NotSet == [value |-> NoToken, max_age |-> 0, httponly |-> FALSE,
           samesite |-> "", secure |-> FALSE, path |-> ""]
NoCookies == [access_token |-> NotSet, refresh_token |-> NotSet]

Cookie_mut_always_secure(value, max_age) ==
    [value |-> value, max_age |-> max_age, httponly |-> TRUE,
     samesite |-> "Lax", secure |-> TRUE, path |-> "/"]

\* response.set_cookie(key, value, max_age, httponly, samesite, secure, path)
Cookie(value, max_age) ==
    [value |-> value, max_age |-> max_age, httponly |-> TRUE,
     samesite |-> "Lax", secure |-> ~DEBUG, path |-> "/"]

Response(status, user, body) ==
    [status |-> status, user |-> user, body |-> body,
     set_cookies |-> NoCookies, deleted_cookies |-> {}]

set_jwt_cookies(response, access_token, refresh_token) ==
    [response EXCEPT
        !.set_cookies.access_token = Cookie(access_token, ACCESS_TOKEN_LIFETIME),
        !.set_cookies.refresh_token = Cookie(refresh_token, REFRESH_TOKEN_LIFETIME)]

delete_jwt_cookies_mut_keeps_refresh(response) ==
    [response EXCEPT !.deleted_cookies =
        {[name |-> "access_token", path |-> "/", samesite |-> "Lax"]}]

delete_jwt_cookies(response) ==
    [response EXCEPT !.deleted_cookies =
        {[name |-> "access_token", path |-> "/", samesite |-> "Lax"],
         [name |-> "refresh_token", path |-> "/", samesite |-> "Lax"]}]

set_access_token_cookie(response, access_token) ==
    [response EXCEPT
        !.set_cookies.access_token = Cookie(access_token, ACCESS_TOKEN_LIFETIME)]

\* ------------------------------------------------- Credential Store
\* make_password / check_password: a one-way hash of the raw password
make_password(raw) == <<"hash", raw>>
check_password(raw, stored) == stored = make_password(raw)

EmailExists(U, email) == \E i \in 1..Len(U) : U[i].email = email
UserByEmail(U, email) ==
    IF EmailExists(U, email)
    THEN CHOOSE i \in 1..Len(U) : U[i].email = email
    ELSE 0

NewUser(data) ==
    [email |-> data.email, password |-> make_password(data.password),
     first_name |-> "", last_name |-> "", is_active |-> TRUE, last_login |-> 0]

\* User.objects.create_user: the store enforces the unique email itself and
\* raises on a duplicate.
create_user(U, data) ==
    IF EmailExists(U, data.email)
    THEN [result |-> "raise", users |-> U, uid |-> 0]
    ELSE [result |-> "ok", users |-> Append(U, NewUser(data)), uid |-> Len(U) + 1]

\* ----------------------------------------------------- requests
Request(op) ==
    [op |-> op, access_token |-> NoToken, refresh_token |-> NoToken, jwt |-> NoToken,
     header |-> NoHeader, email |-> "", password |-> "", password2 |-> "",
     first_name |-> Absent, last_name |-> Absent, refresh |-> NoToken]

\* what a client can put in a cookie or after "Bearer"
TokenInputs ==
    {Malformed} \cup issued \cup {Tampered(tok) : tok \in {i \in issued : i.kind = "access"}}
CookieInputs == {NoToken} \cup TokenInputs
HeaderInputs ==
    {NoHeader, BadPartsHeader, OtherSchemeHeader}
        \cup {BearerHeader(tok) : tok \in TokenInputs}
\* what a client can send as its refresh_token cookie
RefreshCookieInputs ==
    {EmptyCookie} \cup CookieInputs
        \cup {Tampered(tok) : tok \in {i \in issued : i.kind = "refresh"}}
\* what a client can send as 'refresh' in the body of a refresh request
BodyRefreshInputs == {NoToken} \cup {i \in issued : i.kind = "refresh"}

\* ----------------------------------------------------- serializers
\* validate_password, the configured strength policy
validate_password(password) == password \notin WeakPasswords

\* UserRegistrationSerializer.validate: the two passwords must match
UserRegistrationSerializer_validate(attrs) == attrs.password = attrs.password2

UserRegistrationSerializer_is_valid_mut_no_unique(data, U) ==
    LET field_errors ==
            IF validate_password(data.password) THEN {} ELSE {"password"}
    IN  IF field_errors # {} THEN field_errors
        ELSE IF UserRegistrationSerializer_validate(data) THEN {} ELSE {"password"}

\* UserRegistrationSerializer.is_valid: the field validators (the unique
\* email of the model field, validate_password on password) and, when no
\* field failed, validate().  The result is the set of fields in error.
UserRegistrationSerializer_is_valid(data, U) ==
    LET field_errors ==
            (IF EmailExists(U, data.email) THEN {"email"} ELSE {})
                \cup (IF validate_password(data.password) THEN {} ELSE {"password"})
    IN  IF field_errors # {} THEN field_errors
        ELSE IF UserRegistrationSerializer_validate(data) THEN {} ELSE {"password"}

\* django.contrib.auth.authenticate with the model backend: the user whose
\* email and password match and who may authenticate (is active), else None.
django_authenticate(email, password, U) ==
    LET uid == UserByEmail(U, email)
    IN  IF uid # 0 /\ check_password(password, U[uid].password) /\ U[uid].is_active
        THEN uid ELSE 0

UserLoginSerializer_validate_mut_no_active(attrs, U) ==
    LET uid == UserByEmail(U, attrs.email)
    IN  IF uid # 0 /\ check_password(attrs.password, U[uid].password)
        THEN [valid |-> TRUE, user |-> uid] ELSE [valid |-> FALSE, user |-> 0]

UserLoginSerializer_validate_mut_no_password(attrs, U) ==
    LET uid == UserByEmail(U, attrs.email)
    IN  IF uid # 0 /\ U[uid].is_active
        THEN [valid |-> TRUE, user |-> uid] ELSE [valid |-> FALSE, user |-> 0]

\* UserLoginSerializer.validate
UserLoginSerializer_validate(attrs, U) ==
    LET user == django_authenticate(attrs.email, attrs.password, U)
    IN  IF user = 0 THEN [valid |-> FALSE, user |-> 0]
        ELSE IF ~U[user].is_active THEN [valid |-> FALSE, user |-> 0]
        ELSE [valid |-> TRUE, user |-> user]

\* CharField.to_internal_value with trim_whitespace
Strip(value) ==
    CASE value = " " -> ""
      [] value = " Ann " -> "Ann"
      [] OTHER -> value

\* User.first_name / last_name are optional: the model fields accept the
\* empty string (blank=True), so the serializer fields have allow_blank.
name_allow_blank == TRUE

\* UserUpdateSerializer.validate_first_name / validate_last_name, applied to
\* the value the field hands over, which CharField has trimmed already (an
\* input that trims to '' is refused there unless blank is allowed): an
\* error, or the value to store.
validate_name(value) ==
    LET v == Strip(value)
    IN  IF v = "" /\ ~name_allow_blank
        THEN [valid |-> FALSE, value |-> v]
        ELSE IF v # "" /\ Strip(v) = ""
        THEN [valid |-> FALSE, value |-> v]
        ELSE [valid |-> TRUE, value |-> IF v # "" THEN Strip(v) ELSE v]

\* the keys of UserProfileSerializer(user).data
UserProfileSerializer_data ==
    {"id", "email", "first_name", "last_name", "full_name", "date_joined", "last_login"}

\* ------------------------------------------------------- handlers
\* A handler yields the store and the minted tokens after it, and its response.
Outcome(U, I, response) == [users |-> U, issued |-> I, resp |-> response]

\* DRF's answer when IsAuthenticated is not met (authenticate returned None
\* or raised AuthenticationFailed): 401 with a 'detail'.
NotAuthenticated == Response(401, 0, {"detail"})

\* RegisterView.post after serializer.save(): mint the pair, build the
\* response, attach both cookies.  issuance_fails: an exception between
\* save() and the return leaves the request answered 500.
RegisterView_post_respond(uid, U, I, t, issuance_fails) ==
    IF issuance_fails
    THEN Outcome(U, I, Response(500, 0, {}))
    ELSE LET refresh == RefreshToken_for_user(uid, t)
             access_token == access_token_of(refresh, t)
         IN  Outcome(U, I \cup {refresh, access_token},
                     set_jwt_cookies(Response(201, uid, {"user", "message"}),
                                     access_token, refresh))

\* RegisterView.post from serializer.save() on
RegisterView_post_save(data, U, I, t, issuance_fails) ==
    LET saved == create_user(U, data)
    IN  IF saved.result = "raise"
        THEN Outcome(U, I, Response(500, 0, {}))   \* IntegrityError, not handled
        ELSE RegisterView_post_respond(saved.uid, saved.users, I, t, issuance_fails)

\* RegisterView.post
RegisterView_post(data, U, I, t, issuance_fails) ==
    LET errors == UserRegistrationSerializer_is_valid(data, U)
    IN  IF errors # {}
        THEN Outcome(U, I, Response(400, 0, errors))
        ELSE RegisterView_post_save(data, U, I, t, issuance_fails)

login_view_mut_single_session(data, U, I, t) ==
    LET serializer == UserLoginSerializer_validate(data, U)
    IN  IF serializer.valid
        THEN LET refresh == RefreshToken_for_user(serializer.user, t)
                 access_token == access_token_of(refresh, t)
                 kept == {tok \in I : tok.uid # serializer.user}
             IN  Outcome(U, kept \cup {refresh, access_token},
                         set_jwt_cookies(Response(200, serializer.user, {"user", "message"}),
                                         access_token, refresh))
        ELSE Outcome(U, I, Response(400, 0, {"non_field_errors"}))

\* login_view
login_view(data, U, I, t) ==
    LET serializer == UserLoginSerializer_validate(data, U)
    IN  IF serializer.valid
        THEN LET refresh == RefreshToken_for_user(serializer.user, t)
                 access_token == access_token_of(refresh, t)
             IN  Outcome(U, I \cup {refresh, access_token},
                         set_jwt_cookies(Response(200, serializer.user, {"user", "message"}),
                                         access_token, refresh))
        ELSE Outcome(U, I, Response(400, 0, {"non_field_errors"}))

\* UserProfileView.get
UserProfileView_get(request, U, I, t) ==
    LET auth == authenticate(request, request.header, U, t)
    IN  IF auth.result # "user"
        THEN Outcome(U, I, NotAuthenticated)
        ELSE Outcome(U, I, Response(200, auth.uid, UserProfileSerializer_data))

UserProfileView_update_mut_writes_email(request, U, I, t) ==
    LET auth == authenticate(request, request.header, U, t)
        first == validate_name(request.first_name)
        last == validate_name(request.last_name)
        errors ==
            (IF request.first_name # Absent /\ ~first.valid THEN {"first_name"} ELSE {})
                \cup (IF request.last_name # Absent /\ ~last.valid THEN {"last_name"} ELSE {})
        instance == U[auth.uid]
        saved == [instance EXCEPT
                    !.first_name = IF request.first_name # Absent THEN first.value ELSE @,
                    !.last_name = IF request.last_name # Absent THEN last.value ELSE @,
                    !.email = IF request.email # "" THEN request.email ELSE @]
    IN  IF auth.result # "user" THEN Outcome(U, I, NotAuthenticated)
        ELSE IF errors # {} THEN Outcome(U, I, Response(400, auth.uid, errors))
        ELSE Outcome([U EXCEPT ![auth.uid] = saved], I,
                     Response(200, auth.uid, UserProfileSerializer_data))

\* UserProfileView.put / patch / update, with UserUpdateSerializer
UserProfileView_update(request, U, I, t) ==
    LET auth == authenticate(request, request.header, U, t)
        first == validate_name(request.first_name)
        last == validate_name(request.last_name)
        errors ==
            (IF request.first_name # Absent /\ ~first.valid THEN {"first_name"} ELSE {})
                \cup (IF request.last_name # Absent /\ ~last.valid THEN {"last_name"} ELSE {})
        instance == U[auth.uid]
        saved == [instance EXCEPT
                    !.first_name = IF request.first_name # Absent THEN first.value ELSE @,
                    !.last_name = IF request.last_name # Absent THEN last.value ELSE @]
    IN  IF auth.result # "user" THEN Outcome(U, I, NotAuthenticated)
        ELSE IF errors # {} THEN Outcome(U, I, Response(400, auth.uid, errors))
        ELSE Outcome([U EXCEPT ![auth.uid] = saved], I,
                     Response(200, auth.uid, UserProfileSerializer_data))

logout_view_mut_revokes(request, U, I, t) ==
    LET auth == authenticate(request, request.header, U, t)
    IN  IF auth.result # "user"
        THEN Outcome(U, I, NotAuthenticated)
        ELSE Outcome(U, {tok \in I : tok.uid # auth.uid},
                     delete_jwt_cookies(Response(200, auth.uid, {"message"})))

\* logout_view
logout_view(request, U, I, t) ==
    LET auth == authenticate(request, request.header, U, t)
    IN  IF auth.result # "user"
        THEN Outcome(U, I, NotAuthenticated)
        ELSE Outcome(U, I, delete_jwt_cookies(Response(200, auth.uid, {"message"})))

CookieTokenRefreshView_post_mut_needs_access(request, U, I, t) ==
    LET refresh_token == request.refresh_token
    IN  IF refresh_token \in {NoToken, EmptyCookie}
        THEN Outcome(U, I, Response(401, 0, {"error"}))
        ELSE IF ~TokenVerifies(refresh_token, "refresh", t)
                \/ ~get_validated_token(request.access_token, t)
        THEN Outcome(U, I, Response(401, 0, {"detail", "code"}))
        ELSE LET access_token == access_token_of(refresh_token, t)
             IN  Outcome(U, I \cup {access_token},
                         set_access_token_cookie(Response(200, 0, {"message"}), access_token))

CookieTokenRefreshView_post_mut_consumes(request, U, I, t) ==
    LET refresh_token == request.refresh_token
    IN  IF refresh_token \in {NoToken, EmptyCookie}
        THEN Outcome(U, I, Response(401, 0, {"error"}))
        ELSE IF ~TokenVerifies(refresh_token, "refresh", t) \/ refresh_token \notin I
        THEN Outcome(U, I, Response(401, 0, {"detail", "code"}))
        ELSE LET access_token == access_token_of(refresh_token, t)
             IN  Outcome(U, (I \ {refresh_token}) \cup {access_token},
                         set_access_token_cookie(Response(200, 0, {"message"}), access_token))

CookieTokenRefreshView_post_mut_reads_body(request, U, I, t) ==
    LET refresh_token ==
            IF request.refresh_token \in {NoToken, EmptyCookie}
            THEN request.refresh ELSE request.refresh_token
    IN  IF refresh_token \in {NoToken, EmptyCookie}
        THEN Outcome(U, I, Response(401, 0, {"error"}))
        ELSE IF ~TokenVerifies(refresh_token, "refresh", t)
        THEN Outcome(U, I, Response(401, 0, {"detail", "code"}))
        ELSE LET access_token == access_token_of(refresh_token, t)
             IN  Outcome(U, I \cup {access_token},
                         set_access_token_cookie(Response(200, 0, {"message"}), access_token))

\* CookieTokenRefreshView.post, with TokenRefreshSerializer
CookieTokenRefreshView_post(request, U, I, t) ==
    LET refresh_token == request.refresh_token
    IN  IF refresh_token \in {NoToken, EmptyCookie}
        THEN Outcome(U, I, Response(401, 0, {"error"}))
        ELSE IF ~TokenVerifies(refresh_token, "refresh", t)
        THEN Outcome(U, I, Response(401, 0, {"detail", "code"}))   \* InvalidToken
        ELSE LET access_token == access_token_of(refresh_token, t)
             IN  Outcome(U, I \cup {access_token},
                         set_access_token_cookie(Response(200, 0, {"message"}), access_token))

\* -------------------------------------------------------- the state
\* a worker slot: where its registration request stands, the request, the
\* row it created, its response, and whether its validation passed
IdleSlot == [pc |-> "idle", data |-> Request("register"), uid |-> 0,
             resp |-> Response(0, 0, {}), validated |-> FALSE, fault |-> FALSE]

\* a worker slot of the product service: where its create request stands,
\* the validated body, and the status and error of its response
NoBody == [named |-> {}, name |-> "", price |-> 0, stockQuantity |-> 0,
           sku |-> "", isActive |-> TRUE]
IdleProductSlot == [pc |-> "idle", data |-> NoBody, status |-> 0, error |-> "", id |-> 0]

\* the client's cookie jar: per cookie name its value and the time at which
\* the client drops it (the time it was set plus its max-age)
NoJarCookie == [value |-> NoToken, expires |-> 0]
EmptyJar == [access_token |-> NoJarCookie, refresh_token |-> NoJarCookie]

\* the settings when SIMPLE_JWT has no 'AUTH_COOKIE' key, in a deployment
\* with DEBUG off; and the settings a deployment may choose
DefaultSettings == [DEBUG |-> FALSE, AUTH_COOKIE |-> Absent]
Settings == [DEBUG : BOOLEAN, AUTH_COOKIE : {Absent, "jwt"}]

InitStores ==
    /\ users = <<>>
    /\ now = 0
    /\ issued = {}
    /\ reg = [s \in Slots |-> IdleSlot]
    /\ products = <<>>
    /\ jar = EmptyJar
    /\ phase = "anonymous"
    /\ preg = [s \in Slots |-> IdleProductSlot]

Init ==
    /\ InitStores
    /\ settings = DefaultSettings

\* any deployment: DEBUG on or off, the access cookie's name configured or not
InitConfigured ==
    /\ InitStores
    /\ settings \in Settings

\* ------------------------------------------------ the requests a state admits
RegisterRequests ==
    {[Request("register") EXCEPT !.email = email, !.password = password,
                                 !.password2 = password2] :
        email \in Emails, password \in RegisterPasswords, password2 \in RegisterPasswords}

LoginRequests ==
    {[Request("login") EXCEPT !.email = email, !.password = password] :
        email \in Emails, password \in LoginPasswords}

\* a request to a protected endpoint, with its cookie and Authorization header
AuthRequest(op, cookie, header) ==
    [Request(op) EXCEPT !.access_token = cookie, !.header = header]

\* a PUT or PATCH of the profile
UpdateRequest(op, cookie, header, first_name, last_name) ==
    [AuthRequest(op, cookie, header) EXCEPT
        !.first_name = first_name, !.last_name = last_name]

\* a profile update whose body also names fields the serializer does not have
UpdateRequestNaming(op, cookie, header, first_name, last_name, email, password) ==
    [UpdateRequest(op, cookie, header, first_name, last_name) EXCEPT
        !.email = email, !.password = password]

\* the bodies of a profile update: PUT names both fields, PATCH may leave
\* either out
UpdateBodies ==
    {<<"PUT", first_name, last_name>> :
        first_name \in FirstNameInputs \ {Absent}, last_name \in LastNameInputs \ {Absent}}
    \cup {<<"PATCH", first_name, last_name>> :
        first_name \in FirstNameInputs, last_name \in LastNameInputs}

RefreshRequest(cookie, refresh_cookie) ==
    [Request("refresh") EXCEPT !.access_token = cookie, !.refresh_token = refresh_cookie]

\* a refresh request whose body also names a 'refresh' token
RefreshRequestWithBody(cookie, refresh_cookie, body_refresh) ==
    [RefreshRequest(cookie, refresh_cookie) EXCEPT !.refresh = body_refresh]

\* the request is answered: the store and the minted tokens after it
Answer(out) ==
    /\ Cardinality(out.issued) <= MaxIssued
    /\ users' = out.users
    /\ issued' = out.issued
    /\ UNCHANGED <<now, reg, products, settings, jar, phase, preg>>

\* -------------------------------------------- requests, one at a time
Register ==
    \E request \in RegisterRequests, issuance_fails \in BOOLEAN :
        Answer(RegisterView_post(request, users, issued, now, issuance_fails))

Login ==
    \E request \in LoginRequests : Answer(login_view(request, users, issued, now))

ProfileGet ==
    \E cookie \in CookieInputs, header \in HeaderInputs :
        Answer(UserProfileView_get(AuthRequest("GET", cookie, header), users, issued, now))

ProfileUpdate(op) ==
    \E cookie \in CookieInputs, header \in HeaderInputs, body \in UpdateBodies :
        /\ body[1] = op
        /\ Answer(UserProfileView_update(
                    UpdateRequest(op, cookie, header, body[2], body[3]),
                    users, issued, now))

ProfilePut == ProfileUpdate("PUT")

ProfilePatch == ProfileUpdate("PATCH")

Logout ==
    \E cookie \in CookieInputs, header \in HeaderInputs :
        Answer(logout_view(AuthRequest("POST", cookie, header), users, issued, now))

Refresh ==
    \E cookie \in CookieInputs, refresh_cookie \in RefreshCookieInputs,
       body_refresh \in BodyRefreshInputs :
        Answer(CookieTokenRefreshView_post(
                   RefreshRequestWithBody(cookie, refresh_cookie, body_refresh),
                   users, issued, now))

\* an operator deactivates an account outside the API (user.is_active = False; save())
Deactivate ==
    \E uid \in 1..Len(users) :
        /\ users[uid].is_active
        /\ users' = [users EXCEPT ![uid].is_active = FALSE]
        /\ UNCHANGED <<now, issued, reg, products, settings, jar, phase, preg>>

Tick ==
    /\ now < MaxTime
    /\ now' = now + 1
    /\ UNCHANGED <<users, issued, reg, products, settings, jar, phase, preg>>

Next ==
    \/ Register
    \/ Login
    \/ ProfileGet
    \/ ProfilePut
    \/ ProfilePatch
    \/ Logout
    \/ Refresh
    \/ Deactivate
    \/ Tick

Spec == Init /\ [][Next]_vars

\* the requests that mint tokens, set, read or delete cookies, against any
\* deployment's settings
NextConfigured ==
    \/ Register
    \/ Login
    \/ ProfileGet
    \/ Logout
    \/ Refresh
    \/ Deactivate
    \/ Tick

SpecConfigured == InitConfigured /\ [][NextConfigured]_vars

\* ------------------------------------- registrations that interleave
\* RegisterView.post, lines 39-40: serializer.is_valid(raise_exception=True)
RegisterValidate(s) ==
    /\ reg[s].pc = "idle"
    /\ \E request \in RegisterRequests :
         LET errors == UserRegistrationSerializer_is_valid(request, users)
         IN  reg' = [reg EXCEPT ![s] =
                IF errors # {}
                THEN [IdleSlot EXCEPT !.pc = "done", !.data = request,
                                      !.resp = Response(400, 0, errors)]
                ELSE [IdleSlot EXCEPT !.pc = "validated", !.data = request,
                                      !.validated = TRUE]]
    /\ UNCHANGED <<users, now, issued, products, settings, jar, phase, preg>>

\* RegisterView.post, line 41: serializer.save()
RegisterSave(s) ==
    /\ reg[s].pc = "validated"
    /\ LET saved == create_user(users, reg[s].data)
       IN  IF saved.result = "raise"
           THEN /\ reg' = [reg EXCEPT ![s].pc = "done",
                                      ![s].resp = Response(500, 0, {})]
                /\ UNCHANGED users
           ELSE /\ users' = saved.users
                /\ reg' = [reg EXCEPT ![s].pc = "saved", ![s].uid = saved.uid]
    /\ UNCHANGED <<now, issued, products, settings, jar, phase, preg>>

\* RegisterView.post, lines 43-58: the token pair, the response, the cookies
RegisterRespond(s) ==
    /\ reg[s].pc = "saved"
    /\ \E issuance_fails \in BOOLEAN :
         LET out == RegisterView_post_respond(reg[s].uid, users, issued, now, issuance_fails)
         IN  /\ issued' = out.issued
             /\ reg' = [reg EXCEPT ![s].pc = "done", ![s].resp = out.resp,
                                   ![s].fault = issuance_fails]
    /\ UNCHANGED <<users, now, products, settings, jar, phase, preg>>

\* the response is delivered and the worker takes the next request
RegisterDone(s) ==
    /\ reg[s].pc = "done"
    /\ reg' = [reg EXCEPT ![s] = IdleSlot]
    /\ UNCHANGED <<users, now, issued, products, settings, jar, phase, preg>>

NextRace ==
    \E s \in Slots :
        \/ RegisterValidate(s)
        \/ RegisterSave(s)
        \/ RegisterRespond(s)
        \/ RegisterDone(s)

SpecRace == Init /\ [][NextRace]_vars

\* --------------------------------------- one cookie-only client's session
CookieNames == {"access_token", "refresh_token"}

\* the jar after a response: every cookie it sets is stored with the time
\* its max-age runs out, every cookie it deletes is dropped
ApplySetCookies(J, response, t) ==
    [name \in CookieNames |->
        IF name \in {c.name : c \in response.deleted_cookies} THEN NoJarCookie
        ELSE IF response.set_cookies[name] # NotSet
        THEN [value |-> response.set_cookies[name].value,
              expires |-> t + response.set_cookies[name].max_age]
        ELSE J[name]]

\* the cookie the client sends under a name: the one it holds, until it expires
Sent(J, name, t) == IF t < J[name].expires THEN J[name].value ELSE NoToken

\* a request of the client: its cookies and no Authorization header
JarRequest(op, J, t) ==
    [Request(op) EXCEPT !.access_token = Sent(J, "access_token", t),
                        !.refresh_token = Sent(J, "refresh_token", t)]

\* the response reaches the client; a response with the given status moves
\* the session to the given phase
ClientAnswer(out, status, next) ==
    /\ Cardinality(out.issued) <= MaxIssued
    /\ users' = out.users
    /\ issued' = out.issued
    /\ jar' = ApplySetCookies(jar, out.resp, now)
    /\ phase' = IF out.resp.status = status THEN next ELSE phase
    /\ UNCHANGED <<now, reg, products, settings, preg>>

ClientRegister ==
    \E request \in RegisterRequests, issuance_fails \in BOOLEAN :
        ClientAnswer(RegisterView_post(
                         [JarRequest("register", jar, now) EXCEPT
                             !.email = request.email, !.password = request.password,
                             !.password2 = request.password2],
                         users, issued, now, issuance_fails),
                     201, "authenticated")

ClientLogin ==
    \E request \in LoginRequests :
        ClientAnswer(login_view([JarRequest("login", jar, now) EXCEPT
                                    !.email = request.email, !.password = request.password],
                                users, issued, now),
                     200, "authenticated")

ClientProfile ==
    ClientAnswer(UserProfileView_get(JarRequest("GET", jar, now), users, issued, now),
                 0, phase)

ClientRefresh ==
    ClientAnswer(CookieTokenRefreshView_post(JarRequest("refresh", jar, now),
                                             users, issued, now),
                 200, "refreshed")

ClientLogout ==
    ClientAnswer(logout_view(JarRequest("POST", jar, now), users, issued, now),
                 200, "loggedout")

NextSession ==
    \/ ClientRegister
    \/ ClientLogin
    \/ ClientProfile
    \/ ClientRefresh
    \/ ClientLogout
    \/ Tick

SpecSession == Init /\ [][NextSession]_vars

\* ===================================================== product service
\* ------------------------------------------------- exception handler
\* an exception: its class and str(exc); an APIException also has its status
Exc(class, text, status_code) == [class |-> class, text |-> text, status_code |-> status_code]
NoExc == Exc("none", "", 0)

\* exceptions that are neither framework API exceptions, nor mongoengine's
\* ValidationError / NotUniqueError, nor Http404: a lost database
\* connection, a programming error, and an exception without a message
UnexpectedExceptions ==
    {Exc("ServerSelectionTimeoutError", "db:27017: [Errno 111] Connection refused", 0),
     Exc("KeyError", "'stockQuantity'", 0),
     Exc("Exception", "", 0)}

Exceptions ==
    UnexpectedExceptions
        \cup {Exc("NotAuthenticated", "Authentication credentials were not provided.", 401),
              Exc("ValidationError(rest_framework)", "This field is required.", 400),
              Exc("Http404", "Product not found", 0),
              Exc("ValidationError", "Integer value is too small", 0),
              Exc("NotUniqueError",
                  "E11000 duplicate key error collection: products index: sku_1", 0)}

\* a response of the product service: its status and the body, a record
ApiResponse(status, body) == [status |-> status, body |-> body]
NoResponse == ApiResponse(0, [none |-> ""])

\* rest_framework.views.exception_handler: a response for Http404 (as
\* NotFound) and for every APIException, None for anything else
exception_handler(exc) ==
    CASE exc.class = "Http404" -> ApiResponse(404, [detail |-> "Not found."])
      [] exc.status_code # 0 -> ApiResponse(exc.status_code, [detail |-> exc.text])
      [] OTHER -> NoResponse

\* custom_exception_handler
custom_exception_handler(exc) ==
    LET response == exception_handler(exc)
    IN  IF response # NoResponse
        THEN ApiResponse(response.status,
                         [error |-> "An error occurred", details |-> response.body.detail])
        ELSE IF exc.class = "ValidationError"
        THEN ApiResponse(400, [error |-> "Validation error", details |-> exc.text])
        ELSE IF exc.class = "NotUniqueError"
        THEN ApiResponse(400, [error |-> "Duplicate entry",
                               details |-> "A product with this SKU already exists."])
        ELSE IF exc.class = "Http404"
        THEN ApiResponse(404, [error |-> "Not found",
                               details |-> "The requested resource was not found."])
        ELSE ApiResponse(500, [error |-> "Internal server error",
                               details |-> IF exc.text # "" THEN exc.text
                                           ELSE "An unexpected error occurred."])

\* ---------------------------------------------------------- catalog
SKUs == {"SKU-1", "SKU-2"}
NameInputs == {"Widget", " "}
PriceInputs == {-1, 0, 10}
StockInputs == {-1, 0, 5}
\* query parameters are text: absent or empty, a number, something else
PriceParams == {"", "5", "abc"}
InStockParams == {Absent, "true", "false"}
SearchParams == {"", "wid", "zzz"}

ProductFields == {"name", "price", "stockQuantity", "sku", "isActive"}
RequiredFields == {"name", "price", "stockQuantity", "sku"}

\* request.data of a create or update: the fields it names and their values
BodiesNaming(named) ==
    {[named |-> named, name |-> name, price |-> price, stockQuantity |-> stockQuantity,
      sku |-> sku, isActive |-> isActive] :
        name \in (IF "name" \in named THEN NameInputs ELSE {""}),
        price \in (IF "price" \in named THEN PriceInputs ELSE {0}),
        stockQuantity \in (IF "stockQuantity" \in named THEN StockInputs ELSE {0}),
        sku \in (IF "sku" \in named THEN SKUs ELSE {""}),
        isActive \in (IF "isActive" \in named THEN BOOLEAN ELSE {TRUE})}

\* POST and PUT bodies name every field, or leave out isActive, or also sku
FullBodies ==
    BodiesNaming(ProductFields) \cup BodiesNaming(RequiredFields)
        \cup BodiesNaming(RequiredFields \ {"sku"})

\* PATCH bodies name nothing, one field, or price and stockQuantity
PatchBodies ==
    BodiesNaming({}) \cup BodiesNaming({"price", "stockQuantity"})
        \cup UNION {BodiesNaming({f}) : f \in ProductFields}

\* Decimal(str(text)): the number, or InvalidOperation
Decimal(text) ==
    CASE text = "5" -> [ok |-> TRUE, value |-> 5]
      [] text = "10" -> [ok |-> TRUE, value |-> 10]
      [] OTHER -> [ok |-> FALSE, value |-> 0]

\* Product.objects(sku=value, id__ne=instance.id).first()
SkuTaken(P, sku, instance) == \E i \in 1..Len(P) : i # instance /\ P[i].sku = sku

ProductSerializer_errors_mut_no_minimum(data, instance, partial, P) ==
    (IF partial THEN {} ELSE RequiredFields \ data.named)
        \cup {f \in data.named :
                \/ f = "name" /\ Strip(data.name) = ""
                \/ f = "sku" /\ SkuTaken(P, data.sku, instance)}

\* ProductSerializer.is_valid: the fields in error.  instance is 0 on create.
ProductSerializer_errors(data, instance, partial, P) ==
    (IF partial THEN {} ELSE RequiredFields \ data.named)
        \cup {f \in data.named :
                \/ f = "name" /\ Strip(data.name) = ""
                \/ f = "price" /\ data.price < 0
                \/ f = "stockQuantity" /\ data.stockQuantity < 0
                \/ f = "sku" /\ SkuTaken(P, data.sku, instance)}

\* serializer.validated_data: the named fields, name trimmed, and isActive
\* with its default True when a full (not partial) body leaves it out
ProductSerializer_validated_data(data, partial) ==
    [data EXCEPT !.name = Strip(@),
                 !.named = IF partial THEN @ ELSE @ \cup {"isActive"}]

NotUniqueError ==
    Exc("NotUniqueError", "E11000 duplicate key error collection: products index: sku_1", 0)

Product_objects_create_mut_no_index(P, document) ==
    [raised |-> NoExc, products |-> Append(P, document)]

\* Product.objects.create: the insert; the unique index on sku (unique=True)
\* makes the store refuse a document whose sku another document has
Product_objects_create(P, document) ==
    IF \E i \in 1..Len(P) : P[i].sku = document.sku
    THEN [raised |-> NotUniqueError, products |-> P]
    ELSE [raised |-> NoExc, products |-> Append(P, document)]

\* ProductSerializer.create: Product.objects.create(**validated_data)
ProductSerializer_create(P, validated_data) ==
    Product_objects_create(
        P, [name |-> validated_data.name, price |-> validated_data.price,
            stockQuantity |-> validated_data.stockQuantity,
            sku |-> validated_data.sku, isActive |-> validated_data.isActive])

\* ProductSerializer.update: setattr for every validated field, then save()
ProductSerializer_update(instance, validated_data) ==
    [f \in DOMAIN instance |->
        IF f \in validated_data.named THEN validated_data[f] ELSE instance[f]]

\* ProductSerializer(product).data
ProductSerializer_data(P, id) ==
    [id |-> id, name |-> P[id].name, price |-> P[id].price,
     stockQuantity |-> P[id].stockQuantity, sku |-> P[id].sku, isActive |-> P[id].isActive]

\* ------------------------------------------------------ product views
POutcome(P, response) == [products |-> P, resp |-> response]

\* permission_classes: IsAuthenticated refuses an anonymous caller
NotAuthenticatedExc ==
    Exc("NotAuthenticated", "Authentication credentials were not provided.", 401)

get_permissions_mut_all_public(method) == "AllowAny"

\* ProductListCreateView.get_permissions / ProductDetailView.get_permissions:
\* GET is public, the other methods require authentication
get_permissions(method) ==
    IF method = "GET" THEN "AllowAny" ELSE "IsAuthenticated"

\* @permission_classes([AllowAny]) of product_search_view / product_stock_view
api_view_permissions == "AllowAny"

\* APIView.check_permissions
has_permission(permission, authenticated) ==
    permission = "AllowAny" \/ authenticated

\* the price and stock filters of the list and search views: the ids left,
\* or the parameter that does not parse
FilterProducts(ids, min_price, max_price, in_stock, P) ==
    IF min_price # "" /\ ~Decimal(min_price).ok THEN [bad |-> "min_price", ids |-> {}]
    ELSE IF max_price # "" /\ ~Decimal(max_price).ok THEN [bad |-> "max_price", ids |-> {}]
    ELSE [bad |-> "",
          ids |-> {i \in ids :
                    /\ min_price # "" => P[i].price >= Decimal(min_price).value
                    /\ max_price # "" => P[i].price <= Decimal(max_price).value
                    /\ in_stock = "true" => P[i].stockQuantity > 0
                    /\ (in_stock # Absent /\ in_stock # "true") => P[i].stockQuantity = 0}]

\* ProductListCreateView.get
ProductListCreateView_get(min_price, max_price, in_stock, authenticated, fault, P) ==
    LET queryset == FilterProducts(1..Len(P), min_price, max_price, in_stock, P)
    IN  IF ~has_permission(get_permissions("GET"), authenticated)
        THEN POutcome(P, custom_exception_handler(NotAuthenticatedExc))
        ELSE IF queryset.bad # ""
        THEN POutcome(P, ApiResponse(400, [error |-> "Invalid " \o queryset.bad \o " format"]))
        ELSE IF fault # NoExc THEN POutcome(P, custom_exception_handler(fault))
        ELSE POutcome(P, ApiResponse(200, [results |-> {i \in queryset.ids : P[i].isActive}]))

\* product_search_view
product_search_view(q, min_price, max_price, in_stock, authenticated, fault, P) ==
    LET active == {i \in 1..Len(P) : P[i].isActive}
        found == {i \in active : q = "" \/ (q = "wid" /\ P[i].name = "Widget")}
        queryset == FilterProducts(found, min_price, max_price, in_stock, P)
    IN  IF ~has_permission(api_view_permissions, authenticated)
        THEN POutcome(P, custom_exception_handler(NotAuthenticatedExc))
        ELSE IF queryset.bad # ""
        THEN POutcome(P, ApiResponse(400, [error |-> "Invalid " \o queryset.bad \o " format"]))
        ELSE IF fault # NoExc THEN POutcome(P, custom_exception_handler(fault))
        ELSE POutcome(P, ApiResponse(200, [results |-> queryset.ids]))

\* ProductListCreateView.post
ProductListCreateView_post(data, authenticated, fault, P) ==
    LET errors == ProductSerializer_errors(data, 0, FALSE, P)
    IN  IF ~has_permission(get_permissions("POST"), authenticated)
        THEN POutcome(P, custom_exception_handler(NotAuthenticatedExc))
        ELSE IF fault # NoExc THEN POutcome(P, custom_exception_handler(fault))
        ELSE IF errors # {}
        THEN POutcome(P, ApiResponse(400, [f \in errors |-> "invalid"]))
        ELSE LET saved == ProductSerializer_create(
                              P, ProductSerializer_validated_data(data, FALSE))
             IN  IF saved.raised # NoExc
                 THEN POutcome(P, custom_exception_handler(saved.raised))
                 ELSE POutcome(saved.products,
                               ApiResponse(201, ProductSerializer_data(
                                                    saved.products, Len(saved.products))))

\* ProductDetailView.get_object: Http404 for an id that names no document
Http404Exc == Exc("Http404", "Product not found", 0)

\* ProductDetailView.get
ProductDetailView_get(id, authenticated, fault, P) ==
    IF ~has_permission(get_permissions("GET"), authenticated)
    THEN POutcome(P, custom_exception_handler(NotAuthenticatedExc))
    ELSE IF fault # NoExc THEN POutcome(P, custom_exception_handler(fault))
    ELSE IF id \notin 1..Len(P) THEN POutcome(P, custom_exception_handler(Http404Exc))
    ELSE POutcome(P, ApiResponse(200, ProductSerializer_data(P, id)))

\* ProductDetailView.put / patch: UpdateModelMixin.update
ProductDetailView_update(id, data, partial, authenticated, fault, P) ==
    IF ~has_permission(get_permissions(IF partial THEN "PATCH" ELSE "PUT"), authenticated)
    THEN POutcome(P, custom_exception_handler(NotAuthenticatedExc))
    ELSE IF fault # NoExc THEN POutcome(P, custom_exception_handler(fault))
    ELSE IF id \notin 1..Len(P) THEN POutcome(P, custom_exception_handler(Http404Exc))
    ELSE IF ProductSerializer_errors(data, id, partial, P) # {}
    THEN POutcome(P, custom_exception_handler(
                         Exc("ValidationError(rest_framework)", "invalid", 400)))
    ELSE LET saved == [P EXCEPT ![id] = ProductSerializer_update(
                            P[id], ProductSerializer_validated_data(data, partial))]
         IN  POutcome(saved, ApiResponse(200, ProductSerializer_data(saved, id)))

ProductDetailView_delete_mut_removes(id, authenticated, fault, P) ==
    IF ~has_permission(get_permissions("DELETE"), authenticated)
    THEN POutcome(P, custom_exception_handler(NotAuthenticatedExc))
    ELSE IF fault # NoExc THEN POutcome(P, custom_exception_handler(fault))
    ELSE IF id \notin 1..Len(P) THEN POutcome(P, custom_exception_handler(Http404Exc))
    ELSE POutcome(SubSeq(P, 1, id - 1) \o SubSeq(P, id + 1, Len(P)),
                  ApiResponse(204, [none |-> ""]))

\* ProductDetailView.delete
ProductDetailView_delete(id, authenticated, fault, P) ==
    IF ~has_permission(get_permissions("DELETE"), authenticated)
    THEN POutcome(P, custom_exception_handler(NotAuthenticatedExc))
    ELSE IF fault # NoExc THEN POutcome(P, custom_exception_handler(fault))
    ELSE IF id \notin 1..Len(P) THEN POutcome(P, custom_exception_handler(Http404Exc))
    ELSE POutcome([P EXCEPT ![id].isActive = FALSE], ApiResponse(204, [none |-> ""]))

\* product_stock_view
product_stock_view(id, authenticated, fault, P) ==
    IF ~has_permission(api_view_permissions, authenticated)
    THEN POutcome(P, custom_exception_handler(NotAuthenticatedExc))
    ELSE IF fault # NoExc THEN POutcome(P, custom_exception_handler(fault))
    ELSE IF id \notin 1..Len(P) \/ ~P[id].isActive
    THEN POutcome(P, ApiResponse(404, [error |-> "Product not found"]))
    ELSE POutcome(P, ApiResponse(200,
            [product_id |-> id, stock_quantity |-> P[id].stockQuantity,
             in_stock |-> P[id].stockQuantity > 0,
             available |-> P[id].isActive /\ P[id].stockQuantity > 0]))

\* ---------------------------------------- the product service's requests
\* the ids a client can name: those of the documents and one of none
ProductIds == 1..(Len(products) + 1)
\* what can go wrong in the store while a request is served
Faults == {NoExc} \cup UnexpectedExceptions

PAnswer(out) ==
    /\ Len(out.products) <= MaxProducts
    /\ products' = out.products
    /\ UNCHANGED <<users, now, issued, reg, settings, jar, phase, preg>>

ProductCreate ==
    \E data \in FullBodies, authenticated \in BOOLEAN, fault \in Faults :
        PAnswer(ProductListCreateView_post(data, authenticated, fault, products))

ProductList ==
    \E min_price \in PriceParams, max_price \in PriceParams, in_stock \in InStockParams,
       authenticated \in BOOLEAN, fault \in Faults :
        PAnswer(ProductListCreateView_get(min_price, max_price, in_stock,
                                          authenticated, fault, products))

ProductSearch ==
    \E q \in SearchParams, min_price \in PriceParams, max_price \in PriceParams,
       in_stock \in InStockParams, authenticated \in BOOLEAN, fault \in Faults :
        PAnswer(product_search_view(q, min_price, max_price, in_stock,
                                    authenticated, fault, products))

ProductDetail ==
    \E id \in ProductIds, authenticated \in BOOLEAN, fault \in Faults :
        PAnswer(ProductDetailView_get(id, authenticated, fault, products))

ProductPut ==
    \E id \in ProductIds, data \in FullBodies, authenticated \in BOOLEAN, fault \in Faults :
        PAnswer(ProductDetailView_update(id, data, FALSE, authenticated, fault, products))

ProductPatch ==
    \E id \in ProductIds, data \in PatchBodies, authenticated \in BOOLEAN, fault \in Faults :
        PAnswer(ProductDetailView_update(id, data, TRUE, authenticated, fault, products))

ProductDelete ==
    \E id \in ProductIds, authenticated \in BOOLEAN, fault \in Faults :
        PAnswer(ProductDetailView_delete(id, authenticated, fault, products))

ProductStock ==
    \E id \in ProductIds, authenticated \in BOOLEAN, fault \in Faults :
        PAnswer(product_stock_view(id, authenticated, fault, products))

NextProduct ==
    \/ ProductCreate
    \/ ProductList
    \/ ProductSearch
    \/ ProductDetail
    \/ ProductPut
    \/ ProductPatch
    \/ ProductDelete
    \/ ProductStock

SpecProduct == Init /\ [][NextProduct]_vars

\* ------------------------------------------ creations that interleave
\* the bodies of the creations in flight: valid but for the sku they claim
RaceBodies ==
    {data \in BodiesNaming(RequiredFields) :
        data.name = "Widget" /\ data.price = 10 /\ data.stockQuantity >= 0}

\* ProductListCreateView.post, lines 129-130: serializer.is_valid()
ProductCreateValidate(s) ==
    /\ preg[s].pc = "idle"
    /\ \E data \in RaceBodies :
         LET errors == ProductSerializer_errors(data, 0, FALSE, products)
         IN  preg' = [preg EXCEPT ![s] =
                IF errors # {}
                THEN [IdleProductSlot EXCEPT !.pc = "done", !.data = data, !.status = 400,
                                             !.error = "sku"]
                ELSE [IdleProductSlot EXCEPT !.pc = "validated", !.data = data]]
    /\ UNCHANGED <<users, now, issued, reg, products, settings, jar, phase>>

\* ProductListCreateView.post, lines 131-133: serializer.save() and the 201,
\* or the exception handler's answer to what the store raised
ProductCreateSave(s) ==
    /\ preg[s].pc = "validated"
    /\ LET saved == ProductSerializer_create(
                        products, ProductSerializer_validated_data(preg[s].data, FALSE))
           response == custom_exception_handler(saved.raised)
       IN  IF saved.raised # NoExc
           THEN /\ preg' = [preg EXCEPT ![s].pc = "done", ![s].status = response.status,
                                         ![s].error = response.body.error]
                /\ UNCHANGED products
           ELSE /\ Len(saved.products) <= MaxProducts
                /\ products' = saved.products
                /\ preg' = [preg EXCEPT ![s].pc = "done", ![s].status = 201,
                                         ![s].id = Len(saved.products)]
    /\ UNCHANGED <<users, now, issued, reg, settings, jar, phase>>

\* the response is delivered and the worker takes the next request
ProductCreateDone(s) ==
    /\ preg[s].pc = "done"
    /\ preg' = [preg EXCEPT ![s] = IdleProductSlot]
    /\ UNCHANGED <<users, now, issued, reg, products, settings, jar, phase>>

\* a PUT or a PATCH served in one piece while creations are in flight
ProductUpdateBetween ==
    /\ \E id \in ProductIds, data \in BodiesNaming({"sku"}) \cup RaceBodies,
          partial \in BOOLEAN :
         /\ partial <=> data.named = {"sku"}
         /\ products' = ProductDetailView_update(id, data, partial, TRUE,
                                                  NoExc, products).products
    /\ UNCHANGED <<users, now, issued, reg, settings, jar, phase, preg>>

NextProductRace ==
    \/ \E s \in Slots :
          \/ ProductCreateValidate(s)
          \/ ProductCreateSave(s)
          \/ ProductCreateDone(s)
    \/ ProductUpdateBetween

SpecProductRace == Init /\ [][NextProductRace]_vars

\* ------------------------------------------------------------ claims
\* A response is a function of the request and of the state the request
\* finds, so a claim about responses is stated for every request the
\* current state admits.

\* a genuine access token: minted by the service, not altered, not yet
\* expired, and its user still active
IsValidAccess(tok) ==
    /\ tok \in issued
    /\ tok.kind = "access"
    /\ now < tok.exp
    /\ users[tok.uid].is_active

HeaderIsValid(header) == header.form = "bearer" /\ IsValidAccess(header.token)

\* the handler of a protected endpoint
Protected(request) ==
    CASE request.op = "GET" -> UserProfileView_get(request, users, issued, now)
      [] request.op = "POST" -> logout_view(request, users, issued, now)
      [] OTHER -> UserProfileView_update(request, users, issued, now)

\* the bodies sent to the protected endpoints: none for GET profile and
\* POST logout, the name fields for PUT and PATCH profile
ProtectedBodies ==
    {<<"GET", Absent, Absent>>, <<"POST", Absent, Absent>>} \cup UpdateBodies

NoCookieChange(response) ==
    response.set_cookies = NoCookies /\ response.deleted_cookies = {}

AnsweredFromHeader(cookie, header) ==
    LET request == AuthRequest("GET", cookie, header)
    IN  /\ authenticate(request, header, users, now) = Identity(header.token.uid, "header")
        /\ UserProfileView_get(request, users, issued, now).resp
             = Response(200, header.token.uid, UserProfileSerializer_data)

\* C1: a request whose access_token cookie fails validation and whose
\* Authorization header carries a valid Bearer token is resolved to the
\* header token's user; it is not rejected because of the cookie.
C1_HeaderFallback ==
    \A cookie \in CookieInputs, header \in HeaderInputs :
        (/\ cookie # NoToken
         /\ ~IsValidAccess(cookie)
         /\ HeaderIsValid(header))
        => AnsweredFromHeader(cookie, header)

\* an expired cookie, a malformed one and the unexpired cookie of a
\* deactivated user each fall back to a valid header token
C1_Witness ==
    /\ \E cookie \in CookieInputs, header \in HeaderInputs :
         /\ cookie \in issued /\ cookie.kind = "access" /\ cookie.exp <= now
         /\ HeaderIsValid(header)
         /\ AnsweredFromHeader(cookie, header)
    /\ \E cookie \in CookieInputs, header \in HeaderInputs :
         /\ cookie \in issued /\ cookie.kind = "access" /\ now < cookie.exp
         /\ ~users[cookie.uid].is_active
         /\ HeaderIsValid(header)
         /\ AnsweredFromHeader(cookie, header)
    /\ \E header \in HeaderInputs :
         /\ HeaderIsValid(header)
         /\ AnsweredFromHeader(Malformed, header)

\* C2: when the access_token cookie validates, the request is resolved to
\* the cookie token's user whatever the Authorization header holds.
C2_CookiePrecedence ==
    \A cookie \in CookieInputs :
        IsValidAccess(cookie)
        => \A header \in HeaderInputs, body \in ProtectedBodies :
             LET request == UpdateRequest(body[1], cookie, header, body[2], body[3])
                 out == Protected(request)
             IN  /\ authenticate(request, header, users, now) = Identity(cookie.uid, "cookie")
                 /\ out.resp.status \in {200, 400}
                 /\ out.resp.user = cookie.uid

\* a valid cookie of one user together with a valid header token of another
\* user, and together with a header that would raise
C2_Witness ==
    /\ \E cookie \in CookieInputs, header \in HeaderInputs :
         /\ IsValidAccess(cookie)
         /\ HeaderIsValid(header)
         /\ header.token.uid # cookie.uid
         /\ UserProfileView_get(AuthRequest("GET", cookie, header), users, issued, now).resp.user
                = cookie.uid
    /\ \E cookie \in CookieInputs :
         /\ IsValidAccess(cookie)
         /\ UserProfileView_get(AuthRequest("GET", cookie, BadPartsHeader),
                                users, issued, now).resp.status = 200

\* C3: with no valid cookie and no valid Bearer header token, the request is
\* not resolved to a user; GET/PUT/PATCH profile and POST logout answer 401,
\* leave the store as it is and set or clear no cookie.
C3_Unauthenticated ==
    \A cookie \in CookieInputs, header \in HeaderInputs :
        (~IsValidAccess(cookie) /\ ~HeaderIsValid(header))
        => \A body \in ProtectedBodies :
             LET request == UpdateRequest(body[1], cookie, header, body[2], body[3])
                 out == Protected(request)
             IN  /\ authenticate(request, header, users, now).result # "user"
                 /\ out.resp.status = 401
                 /\ out.users = users
                 /\ out.issued = issued
                 /\ NoCookieChange(out.resp)

\* an expired token in the header of a PATCH naming a new first name, and a
\* refresh token in the cookie of a logout, for a user that exists
C3_Witness ==
    /\ \E header \in HeaderInputs :
         /\ header.form = "bearer"
         /\ header.token \in issued
         /\ header.token.kind = "access"
         /\ header.token.exp <= now
         /\ users[header.token.uid].first_name = ""
         /\ Protected(UpdateRequest("PATCH", NoToken, header, " Ann ", Absent)).resp.status = 401
    /\ \E cookie \in CookieInputs :
         /\ cookie \in issued
         /\ cookie.kind = "refresh"
         /\ now < cookie.exp
         /\ Protected(AuthRequest("POST", cookie, NoHeader)).resp.status = 401

BothCookiesSet(response) ==
    /\ response.set_cookies.access_token # NotSet
    /\ response.set_cookies.refresh_token # NotSet

UsersWithEmail(email) == {i \in 1..Len(users) : users[i].email = email}

\* C4: after a registration request completes, either a User with its email
\* exists and the response sets both cookies, or the request created no User
\* and set no cookie.
C4_RegistrationAtomic ==
    \A s \in Slots :
        reg[s].pc = "done"
        => \/ /\ EmailExists(users, reg[s].data.email)
              /\ BothCookiesSet(reg[s].resp)
           \/ /\ reg[s].uid = 0
              /\ NoCookieChange(reg[s].resp)

\* C5: two registrations for one email that both pass validation before
\* either saves end with one 201 and one 400, and one User with that email.
C5_OneSuccessOneConflict ==
    \A s1 \in Slots, s2 \in Slots :
        (/\ s1 # s2
         /\ reg[s1].pc = "done" /\ reg[s2].pc = "done"
         /\ reg[s1].data.email = reg[s2].data.email
         /\ reg[s1].validated /\ reg[s2].validated
         /\ ~reg[s1].fault /\ ~reg[s2].fault)
        => /\ {reg[s1].resp.status, reg[s2].resp.status} = {201, 400}
           /\ Cardinality(UsersWithEmail(reg[s1].data.email)) = 1

\* C6: a registration whose email is already present, whose password fails
\* the strength policy, or whose password and password2 differ is answered
\* 400; the stored users are unchanged and no cookie is set.
C6_RegistrationRejected ==
    \A request \in RegisterRequests, issuance_fails \in BOOLEAN :
        (\/ EmailExists(users, request.email)
         \/ request.password \in WeakPasswords
         \/ request.password # request.password2)
        => LET out == RegisterView_post(request, users, issued, now, issuance_fails)
           IN  /\ out.resp.status = 400
               /\ out.users = users
               /\ out.issued = issued
               /\ NoCookieChange(out.resp)

\* each of the three causes alone, in one state: a taken email with a good
\* password pair, and for a free email a weak pair and a mismatching pair
C6_Witness ==
    /\ \E request \in RegisterRequests :
         /\ EmailExists(users, request.email)
         /\ request.password \notin WeakPasswords
         /\ request.password = request.password2
         /\ RegisterView_post(request, users, issued, now, FALSE).resp.status = 400
    /\ \E request \in RegisterRequests :
         /\ ~EmailExists(users, request.email)
         /\ request.password \in WeakPasswords
         /\ request.password = request.password2
         /\ RegisterView_post(request, users, issued, now, FALSE).resp.status = 400
    /\ \E request \in RegisterRequests :
         /\ ~EmailExists(users, request.email)
         /\ request.password \notin WeakPasswords
         /\ request.password # request.password2
         /\ RegisterView_post(request, users, issued, now, FALSE).resp.status = 400

\* the user a login names, with the right password
CorrectPassword(request) ==
    /\ EmailExists(users, request.email)
    /\ check_password(request.password, users[UserByEmail(users, request.email)].password)

LoginRejected(request) ==
    LET out == login_view(request, users, issued, now)
    IN  /\ out.resp.status = 400
        /\ NoCookieChange(out.resp)
        /\ out.issued = issued
        /\ out.users = users

\* C7: login for a user whose is_active is false answers 400 even with the
\* correct password, mints no token pair and sets no cookie.
C7_InactiveLockout ==
    \A request \in LoginRequests :
        (/\ CorrectPassword(request)
         /\ ~users[UserByEmail(users, request.email)].is_active)
        => LoginRejected(request)

C7_Witness ==
    \E request \in LoginRequests :
        /\ CorrectPassword(request)
        /\ ~users[UserByEmail(users, request.email)].is_active
        /\ login_view(request, users, issued, now).resp.status = 400

\* C8: login with a wrong password for an existing active user answers 400,
\* sets and deletes no cookie and leaves the user record unchanged.
C8_WrongPassword ==
    \A request \in LoginRequests :
        (/\ EmailExists(users, request.email)
         /\ users[UserByEmail(users, request.email)].is_active
         /\ ~CorrectPassword(request))
        => LoginRejected(request)

C8_Witness ==
    \E request \in LoginRequests :
        /\ EmailExists(users, request.email)
        /\ users[UserByEmail(users, request.email)].is_active
        /\ ~CorrectPassword(request)
        /\ login_view(request, users, issued, now).resp.status = 400

\* C9: the body of a successful registration (201) and of a successful
\* login (200) holds 'user' and a 'tokens' object.
C9_TokensInBody ==
    /\ \A request \in LoginRequests :
         LET out == login_view(request, users, issued, now)
         IN  out.resp.status = 200 => {"user", "tokens"} \subseteq out.resp.body
    /\ \A request \in RegisterRequests :
         LET out == RegisterView_post(request, users, issued, now, FALSE)
         IN  out.resp.status = 201 => {"user", "tokens"} \subseteq out.resp.body

\* a genuine refresh token: minted by the service, not altered, not expired
IsValidRefresh(tok) ==
    /\ tok \in issued
    /\ tok.kind = "refresh"
    /\ now < tok.exp

\* C10: refresh with a valid refresh_token cookie answers 200 whatever the
\* access_token cookie is; the response sets the access_token cookie alone,
\* to an access token minted now, and neither sets nor deletes refresh_token.
C10_RefreshAccessOnly ==
    \A refresh_cookie \in CookieInputs :
        IsValidRefresh(refresh_cookie)
        => \A cookie \in CookieInputs :
             LET out == CookieTokenRefreshView_post(RefreshRequest(cookie, refresh_cookie),
                                                    users, issued, now)
                 minted == out.resp.set_cookies.access_token.value
             IN  /\ out.resp.status = 200
                 /\ minted = [kind |-> "access", uid |-> refresh_cookie.uid,
                              exp |-> now + ACCESS_TOKEN_LIFETIME, sig |-> TRUE]
                 /\ minted \in out.issued
                 /\ out.resp.set_cookies.refresh_token = NotSet
                 /\ out.resp.deleted_cookies = {}
                 /\ out.users = users

\* a valid refresh cookie sent without an access cookie, with a malformed
\* one, and with an expired one, each answered 200
C10_Witness ==
    \E refresh_cookie \in CookieInputs :
        /\ IsValidRefresh(refresh_cookie)
        /\ CookieTokenRefreshView_post(RefreshRequest(NoToken, refresh_cookie),
                                       users, issued, now).resp.status = 200
        /\ CookieTokenRefreshView_post(RefreshRequest(Malformed, refresh_cookie),
                                       users, issued, now).resp.status = 200
        /\ \E cookie \in CookieInputs :
             /\ cookie \in issued
             /\ cookie.kind = "access"
             /\ cookie.exp <= now
             /\ CookieTokenRefreshView_post(RefreshRequest(cookie, refresh_cookie),
                                            users, issued, now).resp.status = 200

\* C11: refresh answers 401 and sets no cookie when the refresh_token cookie
\* is missing, empty, malformed, tampered or expired (or is no genuine
\* refresh token at all); a refresh token named only in the request body is
\* ignored, so that request is answered 401 too.
C11_RefreshRejected ==
    \A refresh_cookie \in RefreshCookieInputs :
        ~IsValidRefresh(refresh_cookie)
        => \A cookie \in CookieInputs, body_refresh \in BodyRefreshInputs :
             LET out == CookieTokenRefreshView_post(
                            RefreshRequestWithBody(cookie, refresh_cookie, body_refresh),
                            users, issued, now)
             IN  /\ out.resp.status = 401
                 /\ NoCookieChange(out.resp)
                 /\ out.issued = issued
                 /\ out.users = users

RefreshStatus(refresh_cookie, body_refresh) ==
    CookieTokenRefreshView_post(RefreshRequestWithBody(NoToken, refresh_cookie, body_refresh),
                                users, issued, now).resp.status

\* in one state: an expired refresh token, a tampered copy of an unexpired
\* one, a malformed and an empty cookie are each answered 401, and so is a
\* request without the cookie whose body names an unexpired refresh token
C11_Witness ==
    /\ \E expired \in issued :
         /\ expired.kind = "refresh"
         /\ expired.exp <= now
         /\ RefreshStatus(expired, NoToken) = 401
    /\ \E valid \in issued :
         /\ IsValidRefresh(valid)
         /\ RefreshStatus(Tampered(valid), NoToken) = 401
         /\ RefreshStatus(NoToken, valid) = 401
         /\ RefreshStatus(EmptyCookie, valid) = 401
         /\ RefreshStatus(Malformed, valid) = 401

\* the service accepts a token it minted: an access token resolves to its
\* user from the cookie and from the Bearer header, a refresh token mints an
\* access token at the refresh endpoint
Accepted(tok, U, I, t) ==
    /\ tok \in I
    /\ IF tok.kind = "access"
       THEN /\ authenticate(AuthRequest("GET", tok, NoHeader), NoHeader, U, t)
                 = Identity(tok.uid, "cookie")
            /\ authenticate(AuthRequest("GET", NoToken, BearerHeader(tok)),
                            BearerHeader(tok), U, t) = Identity(tok.uid, "header")
       ELSE CookieTokenRefreshView_post(RefreshRequest(NoToken, tok), U, I, t).resp.status = 200

\* every token accepted before the request is accepted after it
NothingInvalidated(out) ==
    \A tok \in issued :
        Accepted(tok, users, issued, now) => Accepted(tok, out.users, out.issued, now)

\* C12: refresh neither rotates nor consumes the refresh token: presented
\* again, in whatever state the service is in before the token expires, it
\* mints a new access token each time, and no refresh makes a token issued
\* earlier invalid.
C12_RefreshNotConsumed ==
    \A refresh_cookie \in CookieInputs :
        IsValidRefresh(refresh_cookie)
        => LET request == RefreshRequest(NoToken, refresh_cookie)
               first == CookieTokenRefreshView_post(request, users, issued, now)
               second == CookieTokenRefreshView_post(request, first.users, first.issued, now)
           IN  /\ first.resp.status = 200
               /\ second.resp.status = 200
               /\ second.resp.set_cookies.access_token.value \in second.issued
               /\ second.resp.set_cookies.refresh_token = NotSet
               /\ issued \subseteq first.issued
               /\ first.issued \subseteq second.issued
               /\ NothingInvalidated(first)
               /\ Accepted(refresh_cookie, second.users, second.issued, now)

\* a refresh token minted at an earlier time, whose user has logged in again
\* since, mints an access token that did not exist before
C12_Witness ==
    \E refresh_cookie \in issued, login \in issued :
        /\ IsValidRefresh(refresh_cookie)
        /\ refresh_cookie.exp - REFRESH_TOKEN_LIFETIME < now
        /\ login.kind = "refresh" /\ login.uid = refresh_cookie.uid
        /\ refresh_cookie.exp < login.exp
        /\ LET out == CookieTokenRefreshView_post(RefreshRequest(NoToken, refresh_cookie),
                                                  users, issued, now)
           IN  /\ out.resp.status = 200
               /\ out.resp.set_cookies.access_token.value \in out.issued
               /\ Accepted(refresh_cookie, out.users, out.issued, now)

\* the caller of a protected endpoint is authenticated
Authenticated(cookie, header) == IsValidAccess(cookie) \/ HeaderIsValid(header)

\* C13: logout by an authenticated caller answers 200 and deletes the
\* access_token and refresh_token cookies; it changes nothing on the server,
\* and every token accepted before it is accepted after it.
C13_LogoutStateless ==
    \A cookie \in CookieInputs, header \in HeaderInputs :
        Authenticated(cookie, header)
        => LET out == logout_view(AuthRequest("POST", cookie, header), users, issued, now)
           IN  /\ out.resp.status = 200
               /\ {d.name : d \in out.resp.deleted_cookies} = {"access_token", "refresh_token"}
               /\ out.resp.set_cookies = NoCookies
               /\ out.users = users
               /\ out.issued = issued
               /\ NothingInvalidated(out)

\* a caller logs out with its access cookie; that access token and the
\* unexpired refresh token of the same pair are accepted after the logout
C13_Witness ==
    \E cookie \in issued, refresh \in issued :
        /\ IsValidAccess(cookie)
        /\ IsValidRefresh(refresh)
        /\ refresh.uid = cookie.uid
        /\ LET out == logout_view(AuthRequest("POST", cookie, NoHeader), users, issued, now)
           IN  /\ out.resp.status = 200
               /\ out.resp.deleted_cookies # {}
               /\ Accepted(cookie, out.users, out.issued, now)
               /\ Accepted(refresh, out.users, out.issued, now)

\* how the profile endpoint answers an access token sent in the cookie, and
\* one sent in the Bearer header
StatusByCookie(tok) ==
    UserProfileView_get(AuthRequest("GET", tok, NoHeader), users, issued, now).resp.status
StatusByHeader(tok) ==
    UserProfileView_get(AuthRequest("GET", NoToken, BearerHeader(tok)),
                        users, issued, now).resp.status

\* C14: an access token of an active user is accepted, from the cookie and
\* from the header, at the times strictly before its expiry, and rejected at
\* its expiry instant and at every later time.
C14_ExpiryBoundary ==
    \A tok \in issued :
        (tok.kind = "access" /\ users[tok.uid].is_active)
        => /\ now < tok.exp => (StatusByCookie(tok) = 200 /\ StatusByHeader(tok) = 200)
           /\ now >= tok.exp => (StatusByCookie(tok) = 401 /\ StatusByHeader(tok) = 401)

\* in one state: a token exactly at its expiry instant and one past it are
\* rejected, one a tick before its expiry is accepted
C14_Witness ==
    \E at \in issued, past \in issued, before \in issued :
        /\ at.kind = "access" /\ past.kind = "access" /\ before.kind = "access"
        /\ users[at.uid].is_active /\ users[past.uid].is_active /\ users[before.uid].is_active
        /\ at.exp = now /\ past.exp < now /\ before.exp = now + 1
        /\ StatusByCookie(at) = 401 /\ StatusByHeader(at) = 401
        /\ StatusByCookie(past) = 401
        /\ StatusByCookie(before) = 200 /\ StatusByHeader(before) = 200

\* C15: a successful login stores the login time as last_login of the user
\* who logged in and changes no other user; a failed login changes no user.
C15_LoginTouchesLastLogin ==
    \A request \in LoginRequests :
        LET out == login_view(request, users, issued, now)
            uid == out.resp.user
        IN  IF out.resp.status = 200
            THEN /\ out.users[uid].last_login # NewUser(request).last_login
                 /\ \A i \in 1..Len(users) : i # uid => out.users[i] = users[i]
            ELSE out.users = users

\* the fields of a user row a profile update must leave alone
FrozenFields == {"email", "password", "is_active", "last_login"}

\* C16: a profile update (PUT or PATCH) changes first_name and last_name of
\* the caller's own row and nothing else: the row keeps its id, email,
\* password hash, is_active and last_login also when the body names an email
\* and a password, and every other row is unchanged.
C16_UpdateFrame ==
    \A cookie \in CookieInputs :
        IsValidAccess(cookie)
        => \A body \in UpdateBodies, email \in Emails \cup {""},
              password \in RegisterPasswords \cup {""} :
             LET request == UpdateRequestNaming(body[1], cookie, NoHeader, body[2], body[3],
                                                email, password)
                 out == UserProfileView_update(request, users, issued, now)
             IN  /\ Len(out.users) = Len(users)
                 /\ \A i \in 1..Len(users) : i # cookie.uid => out.users[i] = users[i]
                 /\ \A f \in FrozenFields : out.users[cookie.uid][f] = users[cookie.uid][f]
                 /\ out.issued = issued

\* with two users stored, a PATCH that changes the caller's first name and
\* names the other user's email and a new password
C16_Witness ==
    \E cookie \in issued :
        /\ IsValidAccess(cookie)
        /\ \E other \in 1..Len(users) :
             /\ other # cookie.uid
             /\ LET request == UpdateRequestNaming("PATCH", cookie, NoHeader, " Ann ", Absent,
                                                   users[other].email, "123")
                    out == UserProfileView_update(request, users, issued, now)
                IN  /\ out.resp.status = 200
                    /\ out.users[cookie.uid].first_name = "Ann"
                    /\ users[cookie.uid].first_name = ""
                    /\ out.users[cookie.uid].email = users[cookie.uid].email

\* C17: a profile update rejects a supplied first_name or last_name that is
\* empty after trimming with 400 and leaves the row unchanged; an accepted
\* value is stored trimmed.
C17_NamesValidated ==
    \A cookie \in CookieInputs :
        IsValidAccess(cookie)
        => \A body \in UpdateBodies :
             LET out == UserProfileView_update(
                            UpdateRequest(body[1], cookie, NoHeader, body[2], body[3]),
                            users, issued, now)
                 blank == \/ body[2] # Absent /\ Strip(body[2]) = ""
                          \/ body[3] # Absent /\ Strip(body[3]) = ""
             IN  IF blank
                 THEN out.resp.status = 400 /\ out.users = users
                 ELSE /\ out.resp.status = 200
                      /\ body[2] # Absent => out.users[cookie.uid].first_name = Strip(body[2])
                      /\ body[3] # Absent => out.users[cookie.uid].last_name = Strip(body[3])

\* C18: issuing a token pair, by login or by register, invalidates no pair
\* issued earlier: every token accepted before the request is accepted
\* after it, and the earlier unexpired access tokens of the user still
\* resolve to that user.
C18_NoSingleSession ==
    /\ \A request \in LoginRequests :
         LET out == login_view(request, users, issued, now)
         IN  /\ issued \subseteq out.issued
             /\ NothingInvalidated(out)
             /\ out.resp.status = 200
                  => \A tok \in issued :
                       (IsValidAccess(tok) /\ tok.uid = out.resp.user)
                       => Accepted(tok, out.users, out.issued, now)
    /\ \A request \in RegisterRequests :
         LET out == RegisterView_post(request, users, issued, now, FALSE)
         IN  /\ issued \subseteq out.issued
             /\ NothingInvalidated(out)

\* a user who holds an unexpired access token logs in again and gets a pair
\* with a refresh token that did not exist before; the token held is still
\* accepted, and so is the new access token
C18_Witness ==
    \E request \in LoginRequests, tok \in issued :
        LET out == login_view(request, users, issued, now)
        IN  /\ out.resp.status = 200
            /\ IsValidAccess(tok)
            /\ tok.uid = out.resp.user
            /\ out.resp.set_cookies.refresh_token.value \notin issued
            /\ Accepted(tok, out.users, out.issued, now)
            /\ Accepted(out.resp.set_cookies.access_token.value, out.users, out.issued, now)
            /\ Accepted(out.resp.set_cookies.refresh_token.value, out.users, out.issued, now)

\* the fixed messages the exception handler may answer with
SafeMessages ==
    {"An unexpected error occurred.", "The requested resource was not found.",
     "A product with this SKU already exists."}

SafelyAnswered(out, exc) ==
    /\ out.resp = custom_exception_handler(exc)
    /\ out.resp.status = 500
    /\ out.resp.body.error = "Internal server error"
    /\ out.resp.body.details \in SafeMessages
    /\ exc.text # "" => out.resp.body.details # exc.text
    /\ out.products = products

\* C19: an unexpected exception raised while a request is served is answered
\* with status 500 and a fixed safe message; the body does not hold the
\* exception's own text.
C19_NoLeak ==
    \A exc \in UnexpectedExceptions, id \in ProductIds :
        /\ SafelyAnswered(ProductDetailView_get(id, FALSE, exc, products), exc)
        /\ SafelyAnswered(product_stock_view(id, FALSE, exc, products), exc)
        /\ SafelyAnswered(ProductDetailView_delete(id, TRUE, exc, products), exc)
        /\ SafelyAnswered(ProductListCreateView_get("", "", Absent, FALSE, exc, products), exc)

\* the body of an error response has the envelope's two keys
Enveloped(keys) == {"error", "details"} \subseteq keys
ProductError(out) == out.resp.status >= 400 => Enveloped(DOMAIN out.resp.body)
UserError(out) == out.resp.status >= 400 => Enveloped(out.resp.body)

\* C20: every error response of the two services (status 400, 401, 404 or
\* 500) has a body with an 'error' key and a 'details' key: among them the
\* 400 for a min_price or max_price that does not parse, the 404 of the
\* stock endpoint, the 401 of a refresh without cookie and the 400 of a
\* failed login.
C20_UniformEnvelope ==
    /\ \A min_price \in PriceParams, max_price \in PriceParams, fault \in Faults :
         /\ ProductError(ProductListCreateView_get(min_price, max_price, Absent,
                                                   FALSE, fault, products))
         /\ ProductError(product_search_view("", min_price, max_price, Absent,
                                             FALSE, fault, products))
    /\ \A id \in ProductIds, fault \in Faults :
         /\ ProductError(product_stock_view(id, FALSE, fault, products))
         /\ ProductError(ProductDetailView_get(id, FALSE, fault, products))
         /\ \A authenticated \in BOOLEAN :
              ProductError(ProductDetailView_delete(id, authenticated, fault, products))
    /\ \A data \in FullBodies, authenticated \in BOOLEAN :
         ProductError(ProductListCreateView_post(data, authenticated, NoExc, products))
    /\ UserError(CookieTokenRefreshView_post(RefreshRequest(NoToken, NoToken),
                                             users, issued, now))
    /\ \A request \in LoginRequests : UserError(login_view(request, users, issued, now))
    /\ \A request \in RegisterRequests :
         UserError(RegisterView_post(request, users, issued, now, FALSE))
    /\ UserError(UserProfileView_get(AuthRequest("GET", NoToken, NoHeader),
                                     users, issued, now))

\* C26: once a user's is_active is false, an unexpired access token issued
\* earlier for that user resolves to no identity, from the cookie and from
\* the Bearer header, and every protected endpoint answers 401.
C26_DeactivationLocksTokens ==
    \A tok \in issued :
        (tok.kind = "access" /\ now < tok.exp /\ ~users[tok.uid].is_active)
        => \A body \in ProtectedBodies :
             LET byCookie == UpdateRequest(body[1], tok, NoHeader, body[2], body[3])
                 byHeader == UpdateRequest(body[1], NoToken, BearerHeader(tok),
                                           body[2], body[3])
             IN  /\ authenticate(byCookie, NoHeader, users, now).result # "user"
                 /\ authenticate(byHeader, BearerHeader(tok), users, now).result # "user"
                 /\ Protected(byCookie).resp.status = 401
                 /\ Protected(byHeader).resp.status = 401
                 /\ Protected(byCookie).users = users
                 /\ Protected(byHeader).users = users

\* a deactivated user's unexpired access token is answered 401 from the
\* cookie and from the header, while another user's token is answered 200
C26_Witness ==
    \E tok \in issued, other \in issued :
        /\ tok.kind = "access" /\ now < tok.exp /\ ~users[tok.uid].is_active
        /\ StatusByCookie(tok) = 401
        /\ StatusByHeader(tok) = 401
        /\ IsValidAccess(other)
        /\ StatusByCookie(other) = 200

\* C30: a refresh token in the access_token cookie or in the Bearer header
\* resolves to no identity, and an access token in the refresh_token cookie
\* mints nothing: refresh answers 401.
C30_KindsNotInterchangeable ==
    \A tok \in issued :
        /\ tok.kind = "refresh"
             => /\ authenticate(AuthRequest("GET", tok, NoHeader), NoHeader, users, now).result
                      # "user"
                /\ authenticate(AuthRequest("GET", NoToken, BearerHeader(tok)),
                                BearerHeader(tok), users, now).result # "user"
                /\ StatusByCookie(tok) = 401
                /\ StatusByHeader(tok) = 401
        /\ tok.kind = "access"
             => LET out == CookieTokenRefreshView_post(RefreshRequest(NoToken, tok),
                                                       users, issued, now)
                IN  /\ out.resp.status = 401
                    /\ NoCookieChange(out.resp)
                    /\ out.issued = issued

\* an unexpired refresh token of an active user sent as the access cookie
\* and as the Bearer token is answered 401; the unexpired access token of
\* the same pair sent as the refresh cookie is answered 401
C30_Witness ==
    \E refresh \in issued, access \in issued :
        /\ IsValidRefresh(refresh)
        /\ users[refresh.uid].is_active
        /\ IsValidAccess(access)
        /\ access.uid = refresh.uid
        /\ StatusByCookie(refresh) = 401
        /\ StatusByHeader(refresh) = 401
        /\ CookieTokenRefreshView_post(RefreshRequest(NoToken, access),
                                       users, issued, now).resp.status = 401
        /\ CookieTokenRefreshView_post(RefreshRequest(NoToken, refresh),
                                       users, issued, now).resp.status = 200

\* ------------------------------------------------- catalog claims
\* the ids a list or search request answers with, for every combination of
\* its parameters that parses
Listed(id, P) ==
    \E min_price \in {"", "5"}, max_price \in {"", "5"}, in_stock \in InStockParams :
        \/ id \in ProductListCreateView_get(min_price, max_price, in_stock,
                                            FALSE, NoExc, P).resp.body.results
        \/ \E q \in SearchParams :
              id \in product_search_view(q, min_price, max_price, in_stock,
                                        FALSE, NoExc, P).resp.body.results

\* C22: DELETE answers 204, sets isActive to false, changes no other field
\* and removes no document; afterwards the product is in no list or search
\* result, its stock endpoint answers 404 and its document is still
\* retrievable.
C22_SoftDelete ==
    \A id \in 1..Len(products) :
        LET out == ProductDetailView_delete(id, TRUE, NoExc, products)
        IN  /\ out.resp.status = 204
            /\ Len(out.products) = Len(products)
            /\ out.products = [products EXCEPT ![id].isActive = FALSE]
            /\ ~Listed(id, out.products)
            /\ product_stock_view(id, FALSE, NoExc, out.products).resp.status = 404
            /\ ProductDetailView_get(id, FALSE, NoExc, out.products).resp
                 = ApiResponse(200, [ProductSerializer_data(products, id)
                                        EXCEPT !.isActive = FALSE])

\* a product that was listed and in stock has been deleted: it is stored
\* inactive beside an active one, listed no more, and its stock answers 404
C22_Witness ==
    /\ Len(products) = 2
    /\ ~products[1].isActive /\ products[1].stockQuantity > 0
    /\ products[2].isActive
    /\ ~Listed(1, products) /\ Listed(2, products)
    /\ product_stock_view(1, FALSE, NoExc, products).resp.status = 404
    /\ ProductDetailView_get(1, FALSE, NoExc, products).resp.status = 200
    /\ ProductDetailView_delete(2, TRUE, NoExc, products).resp.status = 204

\* C24: GET on the list, detail, search and stock endpoints is answered
\* without credentials as it is with them; POST, PUT, PATCH and DELETE
\* without credentials are answered 401 and leave the catalog unchanged.
C24_PublicReadsAuthenticatedWrites ==
    /\ \A min_price \in PriceParams, in_stock \in InStockParams :
         /\ ProductListCreateView_get(min_price, "", in_stock, FALSE, NoExc, products)
              = ProductListCreateView_get(min_price, "", in_stock, TRUE, NoExc, products)
         /\ product_search_view("wid", min_price, "", in_stock, FALSE, NoExc, products)
              = product_search_view("wid", min_price, "", in_stock, TRUE, NoExc, products)
    /\ ProductListCreateView_get("", "", Absent, FALSE, NoExc, products).resp.status = 200
    /\ product_search_view("", "", "", Absent, FALSE, NoExc, products).resp.status = 200
    /\ \A id \in 1..Len(products) :
         /\ ProductDetailView_get(id, FALSE, NoExc, products).resp.status = 200
         /\ products[id].isActive
              => product_stock_view(id, FALSE, NoExc, products).resp.status = 200
    /\ \A id \in ProductIds :
         /\ ProductDetailView_get(id, FALSE, NoExc, products).resp.status # 401
         /\ product_stock_view(id, FALSE, NoExc, products).resp.status # 401
         /\ ProductDetailView_delete(id, FALSE, NoExc, products)
              = POutcome(products, custom_exception_handler(NotAuthenticatedExc))
         /\ \A data \in FullBodies :
              ProductDetailView_update(id, data, FALSE, FALSE, NoExc, products)
                = POutcome(products, custom_exception_handler(NotAuthenticatedExc))
         /\ \A data \in PatchBodies :
              ProductDetailView_update(id, data, TRUE, FALSE, NoExc, products)
                = POutcome(products, custom_exception_handler(NotAuthenticatedExc))
    /\ \A data \in FullBodies :
         ProductListCreateView_post(data, FALSE, NoExc, products)
           = POutcome(products, custom_exception_handler(NotAuthenticatedExc))
    /\ custom_exception_handler(NotAuthenticatedExc).status \in {401, 403}

\* an active product is stored: anonymous reads of it are answered 200,
\* while the anonymous writes that an authenticated caller would have
\* carried out (a valid PATCH, a DELETE, a valid POST) are answered 401
C24_Witness ==
    /\ Len(products) = 1 /\ products[1].isActive
    /\ ProductDetailView_get(1, FALSE, NoExc, products).resp.status = 200
    /\ product_stock_view(1, FALSE, NoExc, products).resp.status = 200
    /\ \E data \in PatchBodies :
         /\ ProductDetailView_update(1, data, TRUE, TRUE, NoExc, products).resp.status = 200
         /\ ProductDetailView_update(1, data, TRUE, FALSE, NoExc, products).resp.status = 401
    /\ ProductDetailView_delete(1, TRUE, NoExc, products).resp.status = 204
    /\ ProductDetailView_delete(1, FALSE, NoExc, products).resp.status = 401
    /\ \E data \in FullBodies :
         /\ ProductListCreateView_post(data, TRUE, NoExc, products).resp.status = 201
         /\ ProductListCreateView_post(data, FALSE, NoExc, products).resp.status = 401

\* a body that names a negative price or a negative stockQuantity
Negative(data) ==
    \/ "price" \in data.named /\ data.price < 0
    \/ "stockQuantity" \in data.named /\ data.stockQuantity < 0

\* C25: every stored product has price >= 0 and stockQuantity >= 0; a
\* create, PUT or PATCH naming a negative price or a negative stockQuantity
\* is answered 400 and changes nothing.
C25_NonNegative ==
    /\ \A i \in 1..Len(products) :
         products[i].price >= 0 /\ products[i].stockQuantity >= 0
    /\ \A data \in FullBodies :
         Negative(data)
         => /\ ProductListCreateView_post(data, TRUE, NoExc, products).resp.status = 400
            /\ ProductListCreateView_post(data, TRUE, NoExc, products).products = products
            /\ \A id \in 1..Len(products) :
                 LET out == ProductDetailView_update(id, data, FALSE, TRUE, NoExc, products)
                 IN  out.resp.status = 400 /\ out.products = products
    /\ \A data \in PatchBodies, id \in 1..Len(products) :
         Negative(data)
         => LET out == ProductDetailView_update(id, data, TRUE, TRUE, NoExc, products)
            IN  out.resp.status = 400 /\ out.products = products

\* a product with a positive price and one with price 0 and stock 0 are
\* stored; a PATCH of the first to a negative price is answered 400, the
\* same PATCH to price 0 is answered 200
C25_Witness ==
    /\ Len(products) = 2
    /\ products[1].price > 0 /\ products[1].stockQuantity > 0
    /\ products[2].price = 0 /\ products[2].stockQuantity = 0
    /\ \E bad \in BodiesNaming({"price"}), good \in BodiesNaming({"price"}) :
         /\ bad.price < 0 /\ good.price = 0
         /\ ProductDetailView_update(1, bad, TRUE, TRUE, NoExc, products).resp.status = 400
         /\ ProductDetailView_update(1, good, TRUE, TRUE, NoExc, products).resp.status = 200

\* C29: a PUT or PATCH whose body does not name isActive, applied to an
\* inactive product, changes only the fields it names and leaves the
\* product inactive and out of the list, search and stock results.
C29_StaysInactive ==
    \A id \in 1..Len(products) :
        ~products[id].isActive
        => \A partial \in BOOLEAN :
             \A data \in (IF partial THEN PatchBodies ELSE FullBodies) :
               "isActive" \notin data.named
               => LET out == ProductDetailView_update(id, data, partial, TRUE,
                                                      NoExc, products)
                  IN  /\ ~out.products[id].isActive
                      /\ ~Listed(id, out.products)
                      /\ product_stock_view(id, FALSE, NoExc, out.products).resp.status
                           = 404

\* --------------------------------------------------- cookie claims
\* a cookie as the cookie manager must set it for the token it carries
WellSet(cookie, kind) ==
    /\ cookie.value.kind = kind
    /\ cookie.httponly
    /\ cookie.samesite = "Lax"
    /\ cookie.path = "/"
    /\ cookie.secure = ~settings.DEBUG
    /\ cookie.max_age = cookie.value.exp - now
    /\ cookie.max_age
         = IF kind = "access" THEN ACCESS_TOKEN_LIFETIME ELSE REFRESH_TOKEN_LIFETIME

SetsBoth(response) ==
    /\ WellSet(response.set_cookies.access_token, "access")
    /\ WellSet(response.set_cookies.refresh_token, "refresh")

\* C21: every cookie set by register, login and refresh is HttpOnly,
\* SameSite=Lax, Path=/, Secure exactly when DEBUG is off, with the max-age
\* of its own token's lifetime; logout deletes both cookies with the path
\* and SameSite they were set with.
C21_CookieAttributes ==
    /\ \A request \in RegisterRequests :
         LET out == RegisterView_post(request, users, issued, now, FALSE)
         IN  IF out.resp.status = 201 THEN SetsBoth(out.resp)
             ELSE NoCookieChange(out.resp)
    /\ \A request \in LoginRequests :
         LET out == login_view(request, users, issued, now)
         IN  IF out.resp.status = 200 THEN SetsBoth(out.resp)
             ELSE NoCookieChange(out.resp)
    /\ \A refresh_cookie \in RefreshCookieInputs :
         LET out == CookieTokenRefreshView_post(RefreshRequest(NoToken, refresh_cookie),
                                                users, issued, now)
         IN  IF out.resp.status = 200
             THEN /\ WellSet(out.resp.set_cookies.access_token, "access")
                  /\ out.resp.set_cookies.refresh_token = NotSet
             ELSE NoCookieChange(out.resp)
    /\ \A header \in HeaderInputs :
         LET out == logout_view(AuthRequest("POST", NoToken, header), users, issued, now)
         IN  IF out.resp.status = 200
             THEN /\ out.resp.set_cookies = NoCookies
                  /\ {c.name : c \in out.resp.deleted_cookies}
                       = {"access_token", "refresh_token"}
                  /\ \A c \in out.resp.deleted_cookies :
                       \A set \in {Cookie(NoToken, 0)} :
                         c.path = set.path /\ c.samesite = set.samesite
             ELSE NoCookieChange(out.resp)

\* in a deployment with DEBUG on, a login sets both cookies without Secure,
\* each with its own max-age; a refresh sets the access cookie and a logout
\* deletes both
C21_Witness ==
    /\ settings.DEBUG
    /\ \E request \in LoginRequests :
         LET response == login_view(request, users, issued, now).resp
         IN  /\ response.status = 200
             /\ ~response.set_cookies.access_token.secure
             /\ response.set_cookies.access_token.max_age = ACCESS_TOKEN_LIFETIME
             /\ response.set_cookies.refresh_token.max_age = REFRESH_TOKEN_LIFETIME
    /\ \E refresh \in issued, access \in issued :
         /\ CookieTokenRefreshView_post(RefreshRequest(NoToken, refresh), users, issued, now)
              .resp.set_cookies.access_token.max_age = ACCESS_TOKEN_LIFETIME
         /\ Cardinality(logout_view(AuthRequest("POST", NoToken, BearerHeader(access)),
                                    users, issued, now).resp.deleted_cookies) = 2

\* the request of a client that sends back exactly the cookies a response
\* gave it, under the names they were given
EchoRequest(op, response) ==
    [Request(op) EXCEPT !.access_token = response.set_cookies.access_token.value,
                        !.refresh_token = response.set_cookies.refresh_token.value]

EchoIsAuthenticated(out) ==
    LET request == EchoRequest("GET", out.resp)
    IN  /\ authenticate(request, NoHeader, out.users, now).result = "user"
        /\ UserProfileView_get(request, out.users, out.issued, now).resp.status = 200

\* C28: whatever name is configured for the access cookie, the access cookie
\* written by register, login and refresh is the one the resolver reads: a
\* client echoing its cookies is authenticated on its next request.
C28_CookieNameRoundTrip ==
    /\ \A request \in RegisterRequests :
         LET out == RegisterView_post(request, users, issued, now, FALSE)
         IN  out.resp.status = 201 => EchoIsAuthenticated(out)
    /\ \A request \in LoginRequests :
         LET out == login_view(request, users, issued, now)
         IN  out.resp.status = 200 => EchoIsAuthenticated(out)
    /\ \A refresh \in issued :
         LET out == CookieTokenRefreshView_post(RefreshRequest(NoToken, refresh),
                                                users, issued, now)
         IN  (out.resp.status = 200 /\ users[refresh.uid].is_active)
             => EchoIsAuthenticated(out)

\* C23: no two stored products share a SKU, also when the validate and
\* create steps of two creations interleave; the create that would store the
\* duplicate is answered 400 and stores nothing; an update that keeps the
\* product's own SKU is accepted.
C23_SkuUnique ==
    /\ \A i \in 1..Len(products), j \in 1..Len(products) :
         i # j => products[i].sku # products[j].sku
    /\ \A s \in Slots :
         /\ (preg[s].pc = "validated" /\ SkuTaken(products, preg[s].data.sku, 0))
              => LET saved == ProductSerializer_create(
                                  products,
                                  ProductSerializer_validated_data(preg[s].data, FALSE))
                 IN  /\ saved.raised # NoExc
                     /\ saved.products = products
                     /\ custom_exception_handler(saved.raised).status = 400
         /\ preg[s].pc = "done"
              => /\ preg[s].status \in {201, 400}
                 /\ preg[s].status = 400 <=> preg[s].id = 0
                 /\ preg[s].status = 201 => preg[s].id \in 1..Len(products)
    /\ \A data \in RaceBodies :
         LET out == ProductListCreateView_post(data, TRUE, NoExc, products)
         IN  IF SkuTaken(products, data.sku, 0)
             THEN out.resp.status = 400 /\ out.products = products
             ELSE Len(products) < MaxProducts
                  => out.resp.status = 201 /\ Len(out.products) = Len(products) + 1
    /\ \A id \in 1..Len(products) :
         \A data \in BodiesNaming({"sku"}) \cup RaceBodies :
           LET out == ProductDetailView_update(id, data, data.named = {"sku"}, TRUE,
                                               NoExc, products)
           IN  IF data.sku = products[id].sku
               THEN /\ out.resp.status = 200
                    /\ out.products[id].sku = products[id].sku
               ELSE SkuTaken(products, data.sku, id)
                    => out.resp.status = 400 /\ out.products = products

\* two creations for one SKU both passed validation; the first to save was
\* answered 201 and its product is stored, the second was answered 400
\* 'Duplicate entry' and stored nothing
C23_Witness ==
    /\ preg[1].pc = "done" /\ preg[2].pc = "done"
    /\ preg[1].data.sku = preg[2].data.sku
    /\ preg[1].status = 201
    /\ preg[2].status = 400 /\ preg[2].error = "Duplicate entry"
    /\ Len(products) = 1
    /\ products[1].sku = preg[1].data.sku

\* ------------------------------------------------------ session claim
ProfileStatus(J) ==
    UserProfileView_get(JarRequest("GET", J, now), users, issued, now).resp.status
RefreshOutcome(J) ==
    CookieTokenRefreshView_post(JarRequest("refresh", J, now), users, issued, now)
Holds(J, name) == J[name].value # NoToken /\ now < J[name].expires

====
